---- MODULE Spec2Model ----
(***************************************************************************)
(* SHLRecommendationEngine (src/shl_engine.py) and the caller that builds  *)
(* its criteria (src/app.py).  Text is modelled as sequences of one-       *)
(* character strings so that tokenising, lower-casing and substring tests  *)
(* are computed, not assumed.  A DataFrame is a sequence of rows; each row *)
(* carries its index label.                                                *)
(*                                                                         *)
(* recommend sorts with sort_values' default kind, 'quicksort', which      *)
(* pandas documents as not stable: where equal scores end up relative to   *)
(* each other is a property of the numpy build in use, the same on every   *)
(* call of one process.  The build is therefore a value fixed at Init.     *)
(***************************************************************************)
EXTENDS Integers, Sequences, FiniteSets

VARIABLES
    catalog,     \* self.catalog: the engine's DataFrame
    build,       \* how numpy's quicksort orders equal keys in this build
    pc,          \* "idle" | "called" | "returned": where the caller stands
    criteria,    \* the criteria dict of the pending / last recommend call
    outcome,     \* "none" | "ok" | "error": how the last recommend call ended
    result,      \* the DataFrame the last recommend call returned
    details,     \* what the last get_assessment_details call returned
    earlier      \* a caller's record of one earlier call: criteria and output

vars == << catalog, build, pc, criteria, outcome, result, details, earlier >>

------------------------------------------------------------------------------
(* Text *)

UpperAlpha ==
    << "A","B","C","D","E","F","G","H","I","J","K","L","M",
       "N","O","P","Q","R","S","T","U","V","W","X","Y","Z" >>

LowerAlpha ==
    << "a","b","c","d","e","f","g","h","i","j","k","l","m",
       "n","o","p","q","r","s","t","u","v","w","x","y","z" >>

\* str.split() with no argument splits on runs of whitespace
Whitespace == { " ", "\t", "\n" }

LowerTable ==
    [ch \in { UpperAlpha[k] : k \in 1..Len(UpperAlpha) } |->
        LowerAlpha[CHOOSE k \in 1..Len(UpperAlpha) : UpperAlpha[k] = ch]]

LowerChar(ch) == IF ch \in DOMAIN LowerTable THEN LowerTable[ch] ELSE ch

\* str.lower()
Lower(s) == [i \in 1..Len(s) |-> LowerChar(s[i])]

\* str.replace(old, new) for single characters
Replace(s, old, new) == [i \in 1..Len(s) |-> IF s[i] = old THEN new ELSE s[i]]

\* str.split(): scans left to right, cur is the word being collected
RECURSIVE SplitFrom(_, _, _, _)
SplitFrom(s, i, cur, acc) ==
    IF i > Len(s)
    THEN IF cur = << >> THEN acc ELSE Append(acc, cur)
    ELSE IF s[i] \in Whitespace
         THEN SplitFrom(s, i + 1, << >>, IF cur = << >> THEN acc ELSE Append(acc, cur))
         ELSE SplitFrom(s, i + 1, Append(cur, s[i]), acc)

Split(s) == SplitFrom(s, 1, << >>, << >>)

\* the `in` operator on two str values: sub occurs in s
Contains(s, sub) ==
    \E k \in 0..(Len(s) - Len(sub)) :
        \A j \in 1..Len(sub) : s[k + j] = sub[j]

\* set(list)
ToSet(seq) == { seq[i] : i \in 1..Len(seq) }

------------------------------------------------------------------------------
(* The catalog: catalog_data, one column per key *)

Col_assessment_id ==
    << "VERIFY-G+",
       "VERIFY-N",
       "VERIFY-V",
       "OPQ32",
       "MQ",
       "MOTIVATION",
       "PREVUE",
       "REMOTE_WORKER",
       "SALESQ",
       "CALL_CENTER",
       "CODING_POTENTIAL",
       "EXEC_GLOBAL",
       "SITUATIONAL_JUDGMENT" >>

Col_name ==
    << "Verify General Ability",
       "Verify Numerical Reasoning",
       "Verify Verbal Reasoning",
       "Occupational Personality Questionnaire",
       "Motivation Questionnaire",
       "Motivation Inventory",
       "Prevue Assessment",
       "Remote Worker Assessment",
       "SalesQ Assessment",
       "Call Center Assessment",
       "Coding Potential Assessment",
       "Executive Global Assessment",
       "Situational Judgment Test" >>

Col_assessment_type ==
    << "cognitive",
       "cognitive",
       "cognitive",
       "personality",
       "motivation",
       "motivation",
       "mixed",
       "behavioral",
       "behavioral",
       "mixed",
       "skill",
       "mixed",
       "behavioral" >>

Col_job_level ==
    << "all",
       "professional",
       "professional",
       "all",
       "all",
       "all",
       "all",
       "all",
       "sales",
       "entry",
       "technical",
       "executive",
       "all" >>

Col_duration_minutes ==
    << 24, 18, 17, 25, 20, 15, 45, 20, 25, 30, 40, 60, 25 >>

Col_competencies == <<
    \* problem solving, critical thinking, analysis
    << <<"p","r","o","b","l","e","m"," ","s","o","l","v","i","n","g">>,
       <<"c","r","i","t","i","c","a","l"," ","t","h","i","n","k","i","n","g">>,
       <<"a","n","a","l","y","s","i","s">> >>,
    \* numerical analysis, data interpretation, quantitative reasoning
    << <<"n","u","m","e","r","i","c","a","l"," ","a","n","a","l","y","s","i","s">>,
       <<"d","a","t","a"," ","i","n","t","e","r","p","r","e","t","a","t","i","o","n">>,
       <<"q","u","a","n","t","i","t","a","t","i","v","e"," ","r","e","a","s","o","n","i","n","g">> >>,
    \* comprehension, verbal analysis, reasoning
    << <<"c","o","m","p","r","e","h","e","n","s","i","o","n">>,
       <<"v","e","r","b","a","l"," ","a","n","a","l","y","s","i","s">>,
       <<"r","e","a","s","o","n","i","n","g">> >>,
    \* leadership, teamwork, resilience, communication, innovation
    << <<"l","e","a","d","e","r","s","h","i","p">>,
       <<"t","e","a","m","w","o","r","k">>,
       <<"r","e","s","i","l","i","e","n","c","e">>,
       <<"c","o","m","m","u","n","i","c","a","t","i","o","n">>,
       <<"i","n","n","o","v","a","t","i","o","n">> >>,
    \* drive, purpose, achievement, reward focus
    << <<"d","r","i","v","e">>,
       <<"p","u","r","p","o","s","e">>,
       <<"a","c","h","i","e","v","e","m","e","n","t">>,
       <<"r","e","w","a","r","d"," ","f","o","c","u","s">> >>,
    \* intrinsic drivers, extrinsic drivers, social drivers
    << <<"i","n","t","r","i","n","s","i","c"," ","d","r","i","v","e","r","s">>,
       <<"e","x","t","r","i","n","s","i","c"," ","d","r","i","v","e","r","s">>,
       <<"s","o","c","i","a","l"," ","d","r","i","v","e","r","s">> >>,
    \* cognitive, interests, personality, abilities
    << <<"c","o","g","n","i","t","i","v","e">>,
       <<"i","n","t","e","r","e","s","t","s">>,
       <<"p","e","r","s","o","n","a","l","i","t","y">>,
       <<"a","b","i","l","i","t","i","e","s">> >>,
    \* autonomy, self-management, communication, collaboration
    << <<"a","u","t","o","n","o","m","y">>,
       <<"s","e","l","f","-","m","a","n","a","g","e","m","e","n","t">>,
       <<"c","o","m","m","u","n","i","c","a","t","i","o","n">>,
       <<"c","o","l","l","a","b","o","r","a","t","i","o","n">> >>,
    \* persuasion, resilience, drive, relationship building
    << <<"p","e","r","s","u","a","s","i","o","n">>,
       <<"r","e","s","i","l","i","e","n","c","e">>,
       <<"d","r","i","v","e">>,
       <<"r","e","l","a","t","i","o","n","s","h","i","p"," ","b","u","i","l","d","i","n","g">> >>,
    \* customer focus, attention to detail, problem solving
    << <<"c","u","s","t","o","m","e","r"," ","f","o","c","u","s">>,
       <<"a","t","t","e","n","t","i","o","n"," ","t","o"," ","d","e","t","a","i","l">>,
       <<"p","r","o","b","l","e","m"," ","s","o","l","v","i","n","g">> >>,
    \* logical thinking, algorithm design, analytical reasoning
    << <<"l","o","g","i","c","a","l"," ","t","h","i","n","k","i","n","g">>,
       <<"a","l","g","o","r","i","t","h","m"," ","d","e","s","i","g","n">>,
       <<"a","n","a","l","y","t","i","c","a","l"," ","r","e","a","s","o","n","i","n","g">> >>,
    \* strategic thinking, influence, cross-cultural leadership
    << <<"s","t","r","a","t","e","g","i","c"," ","t","h","i","n","k","i","n","g">>,
       <<"i","n","f","l","u","e","n","c","e">>,
       <<"c","r","o","s","s","-","c","u","l","t","u","r","a","l"," ","l","e","a","d","e","r","s","h","i","p">> >>,
    \* judgment, decision making, situational awareness
    << <<"j","u","d","g","m","e","n","t">>,
       <<"d","e","c","i","s","i","o","n"," ","m","a","k","i","n","g">>,
       <<"s","i","t","u","a","t","i","o","n","a","l"," ","a","w","a","r","e","n","e","s","s">> >>
    >>

Col_ideal_for == <<
    \* general screening
    <<"g","e","n","e","r","a","l"," ","s","c","r","e","e","n","i","n","g">>,
    \* finance roles
    <<"f","i","n","a","n","c","e"," ","r","o","l","e","s">>,
    \* knowledge workers
    <<"k","n","o","w","l","e","d","g","e"," ","w","o","r","k","e","r","s">>,
    \* comprehensive personality assessment
    <<"c","o","m","p","r","e","h","e","n","s","i","v","e"," ","p","e","r","s","o","n","a","l","i","t","y"," ","a","s","s","e","s","s","m","e","n","t">>,
    \* understanding motivational drivers
    <<"u","n","d","e","r","s","t","a","n","d","i","n","g"," ","m","o","t","i","v","a","t","i","o","n","a","l"," ","d","r","i","v","e","r","s">>,
    \* quick motivation assessment
    <<"q","u","i","c","k"," ","m","o","t","i","v","a","t","i","o","n"," ","a","s","s","e","s","s","m","e","n","t">>,
    \* holistic candidate evaluation
    <<"h","o","l","i","s","t","i","c"," ","c","a","n","d","i","d","a","t","e"," ","e","v","a","l","u","a","t","i","o","n">>,
    \* remote work positions
    <<"r","e","m","o","t","e"," ","w","o","r","k"," ","p","o","s","i","t","i","o","n","s">>,
    \* sales positions
    <<"s","a","l","e","s"," ","p","o","s","i","t","i","o","n","s">>,
    \* contact center roles
    <<"c","o","n","t","a","c","t"," ","c","e","n","t","e","r"," ","r","o","l","e","s">>,
    \* developer positions
    <<"d","e","v","e","l","o","p","e","r"," ","p","o","s","i","t","i","o","n","s">>,
    \* senior leadership
    <<"s","e","n","i","o","r"," ","l","e","a","d","e","r","s","h","i","p">>,
    \* frontline managers
    <<"f","r","o","n","t","l","i","n","e"," ","m","a","n","a","g","e","r","s">>
    >>

Col_language_availability ==
    << "global",
       "global",
       "global",
       "global",
       "global",
       "limited",
       "global",
       "global",
       "limited",
       "global",
       "global",
       "limited",
       "global" >>

Columns ==
    { "assessment_id", "name", "assessment_type", "job_level", "duration_minutes",
      "competencies", "ideal_for", "language_availability" }

\* pd.DataFrame(catalog_data): row i of every column, under RangeIndex label i-1
LoadShlCatalog ==
    [ i \in 1..Len(Col_assessment_id) |->
        [ index                 |-> i - 1,
          assessment_id         |-> Col_assessment_id[i],
          name                  |-> Col_name[i],
          assessment_type       |-> Col_assessment_type[i],
          job_level             |-> Col_job_level[i],
          duration_minutes      |-> Col_duration_minutes[i],
          competencies          |-> Col_competencies[i],
          ideal_for             |-> Col_ideal_for[i],
          language_availability |-> Col_language_availability[i] ] ]

------------------------------------------------------------------------------
(* Criteria: a dict.  Every key is a field [present, val]; `key in criteria` *)
(* is the field's present flag, and criteria[key] of an absent key raises.   *)

Keys ==
    { "job_role", "job_level", "assessment_focus", "time_constraints",
      "required_languages" }

\* a key test that is always true
HasKeyAlways(crit, key) == TRUE

\* `key in criteria`
HasKey(crit, key) == crit[key].present

\* criteria[key] raises KeyError
KeyError(crit, key) == ~crit[key].present

\* isinstance(text, str)
IsStr(text) == text.isstr

\* _extract_keywords without the replace(',', ' ')
ExtractKeywordsNoComma(text) ==
    IF IsStr(text)
    THEN LET words == Split(text.val)
         IN  [i \in 1..Len(words) |-> Lower(words[i])]
    ELSE << >>

\* _extract_keywords
ExtractKeywords(text) ==
    IF IsStr(text)
    THEN LET words == Split(Replace(text.val, ",", " "))
         IN  [i \in 1..Len(words) |-> Lower(words[i])]
    ELSE << >>

------------------------------------------------------------------------------
(* recommend.  st is the local state of one call: status, the working frame *)
(* `recommendations` (df), self.catalog (cat), and whether the two names    *)
(* denote the same object (alias), in which case a write to df is a write   *)
(* to the catalog.                                                          *)

Raise(st) == [st EXCEPT !.status = "error", !.df = << >>, !.alias = FALSE]

\* df[column] = value on every row
AssignColumn(df, value) ==
    [i \in 1..Len(df) |->
        [col \in DOMAIN df[i] \cup {"relevance_score"} |->
            IF col = "relevance_score" THEN value ELSE df[i][col]]]

\* a write to the working frame, which reaches the catalog when aliased
WriteFrame(st, df) ==
    [st EXCEPT !.df = df, !.cat = IF st.alias THEN df ELSE st.cat]

\* df[mask]: a new frame holding the selected rows
Rebind(st, df) == [st EXCEPT !.df = df, !.alias = FALSE]

\* no .copy(): the working frame is the catalog itself
StartTableInPlace(cat) ==
    [status |-> "ok", df |-> AssignColumn(cat, 0), cat |-> AssignColumn(cat, 0),
     alias |-> TRUE]

\* df[column] = value only on rows that have no such column yet
AssignColumnOnce(df, value) ==
    [i \in 1..Len(df) |->
        IF "relevance_score" \in DOMAIN df[i] THEN df[i]
        ELSE [col \in DOMAIN df[i] \cup {"relevance_score"} |->
                 IF col = "relevance_score" THEN value ELSE df[i][col]]]

\* no .copy(), and the score column set up only when it is not there yet
StartTableKeepScores(cat) ==
    [status |-> "ok", df |-> AssignColumnOnce(cat, 0),
     cat |-> AssignColumnOnce(cat, 0), alias |-> TRUE]

\* recommendations = self.catalog.copy(); recommendations['relevance_score'] = 0
StartTable(cat) ==
    [status |-> "ok", df |-> AssignColumn(cat, 0), cat |-> cat, alias |-> FALSE]

\* the level test without its 'all' alternative
LevelMaskExact(row, level) == row.job_level = level

LevelMask(row, level) == row.job_level = level \/ row.job_level = "all"

LevelFilter(st, crit) ==
    IF st.status # "ok" \/ ~HasKey(crit, "job_level") THEN st
    ELSE IF KeyError(crit, "job_level") THEN Raise(st)
    ELSE LET Keep(row) == LevelMask(row, crit.job_level.val)
         IN  Rebind(st, SelectSeq(st.df, Keep))

TimeMask(row, limit) == row.duration_minutes <= limit

TimeFilter(st, crit) ==
    IF st.status # "ok" \/ ~HasKey(crit, "time_constraints") THEN st
    ELSE IF KeyError(crit, "time_constraints") THEN Raise(st)
    ELSE LET Keep(row) == TimeMask(row, crit.time_constraints.val)
         IN  Rebind(st, SelectSeq(st.df, Keep))

\* `'required_languages' in criteria and criteria['required_languages']`
LanguageActive(crit) ==
    HasKey(crit, "required_languages") /\ Len(crit.required_languages.val) > 0

\* a language test that looks the record's tag up in the requested list
LanguageMaskByValue(row, languages) ==
    \E k \in 1..Len(languages) : languages[k] = row.language_availability

LanguageMask(row, languages) == row.language_availability = "global"

LanguageFilter(st, crit) ==
    IF st.status # "ok" \/ ~LanguageActive(crit) THEN st
    ELSE IF KeyError(crit, "required_languages") THEN Raise(st)
    ELSE LET Keep(row) == LanguageMask(row, crit.required_languages.val)
         IN  Rebind(st, SelectSeq(st.df, Keep))

\* len(set(job_keywords) & set(ideal_keywords)) * 2
MatchScore(job_keywords, ideal_keywords) ==
    Cardinality(ToSet(job_keywords) \cap ToSet(ideal_keywords)) * 2

RoleScoring(st, crit) ==
    IF st.status # "ok" \/ ~HasKey(crit, "job_role") THEN st
    ELSE IF KeyError(crit, "job_role") THEN Raise(st)
    ELSE LET job_keywords == ExtractKeywords(crit.job_role)
         IN  WriteFrame(st,
                 [i \in 1..Len(st.df) |->
                     [st.df[i] EXCEPT !.relevance_score =
                         @ + MatchScore(job_keywords,
                                 ExtractKeywords([isstr |-> TRUE,
                                                  val |-> st.df[i].ideal_for]))]])

\* one count per (requested, record) pair that matches
CompetencyMatchesPerPair(focus, competencies) ==
    Cardinality({ pair \in (1..Len(focus)) \X (1..Len(competencies)) :
        Contains(Lower(competencies[pair[2]]), Lower(focus[pair[1]])) })

\* sum(1 for comp in focus if any(comp.lower() in c.lower() for c in competencies))
CompetencyMatches(focus, competencies) ==
    LET comps == [c \in 1..Len(competencies) |-> Lower(competencies[c])]
    IN  Cardinality({ k \in 1..Len(focus) :
            LET comp == Lower(focus[k])
            IN  \E c \in 1..Len(comps) : Contains(comps[c], comp) })

FocusScoring(st, crit) ==
    IF st.status # "ok" \/ ~HasKey(crit, "assessment_focus") THEN st
    ELSE IF KeyError(crit, "assessment_focus") THEN Raise(st)
    ELSE WriteFrame(st,
             [i \in 1..Len(st.df) |->
                 [st.df[i] EXCEPT !.relevance_score =
                     @ + CompetencyMatches(crit.assessment_focus.val,
                                           st.df[i].competencies) * 3]])

------------------------------------------------------------------------------
(* sort_values(by='relevance_score', ascending=False), kind='quicksort'     *)

Reverse(s) == [i \in 1..Len(s) |-> s[Len(s) + 1 - i]]

\* insertion of position j into an ascending order, behind every equal key
RECURSIVE InsertArg(_, _, _, _)
InsertArg(keys, order, j, at) ==
    IF at > Len(order) \/ keys[order[at]] > keys[j]
    THEN SubSeq(order, 1, at - 1) \o << j >> \o SubSeq(order, at, Len(order))
    ELSE InsertArg(keys, order, j, at + 1)

\* insertion sort: the order among equal keys is the input order
RECURSIVE InsertionArgSort(_, _)
InsertionArgSort(keys, n) ==
    IF n = 0 THEN << >>
    ELSE InsertArg(keys, InsertionArgSort(keys, n - 1), n, 1)

\* quicksort promises no order among equal keys: in build b > 0 the two
\* neighbours at places b, b+1 of the sorted order come out exchanged when
\* their keys are equal; build 0 leaves equal keys in input order
ArgSort(keys, b) ==
    LET order == InsertionArgSort(keys, Len(keys))
    IN  IF b >= 1 /\ b < Len(order) /\ keys[order[b]] = keys[order[b + 1]]
        THEN [order EXCEPT ![b] = order[b + 1], ![b + 1] = order[b]]
        ELSE order

\* pandas nargsort, descending: argsort of the reversed keys, reversed again
NargSort(keys, b) ==
    LET n       == Len(keys)
        items   == Reverse(keys)
        idx     == Reverse([i \in 1..n |-> i])
        sorted  == ArgSort(items, b)
        indexer == [i \in 1..n |-> idx[sorted[i]]]
    IN  Reverse(indexer)

SortValues(st, b) ==
    IF st.status # "ok" THEN st
    ELSE LET indexer == NargSort([i \in 1..Len(st.df) |-> st.df[i].relevance_score], b)
         IN  Rebind(st, [i \in 1..Len(st.df) |-> st.df[indexer[i]]])

OutputColumns ==
    { "assessment_id", "name", "assessment_type", "competencies",
      "duration_minutes", "ideal_for", "relevance_score" }

\* recommendations[[...]]: the listed columns, the index labels kept
Project(st) ==
    IF st.status # "ok" THEN st
    ELSE Rebind(st, [i \in 1..Len(st.df) |->
                        [col \in OutputColumns \cup {"index"} |-> st.df[i][col]]])

\* recommend(criteria) on an engine whose catalog is cat
Recommend(cat, b, crit) ==
    Project(
      SortValues(
        FocusScoring(
          RoleScoring(
            LanguageFilter(
              TimeFilter(
                LevelFilter(StartTable(cat), crit), crit), crit), crit), crit), b))

\* get_assessment_details
GetDetails(cat, id) ==
    LET matches == { i \in 1..Len(cat) : cat[i].assessment_id = id }
        first   == CHOOSE i \in matches : \A j \in matches : i <= j
    IN  IF matches = {} THEN [found |-> FALSE, row |-> << >>]
        ELSE [found |-> TRUE,
              row |-> [col \in DOMAIN cat[first] \ {"index"} |-> cat[first][col]]]

------------------------------------------------------------------------------
(* Callers' inputs *)

\* the largest exchange place among the modelled quicksort builds
MaxTieSwap == 1

Builds == 0..MaxTieSwap

Str(chars) == [isstr |-> TRUE, val |-> chars]

NotStr == [isstr |-> FALSE, val |-> << >>]

LevelTags ==
    { "entry", "professional", "manager", "executive", "sales", "technical", "all" }

TimeValues == { 10, 20 }

LanguageLists == { << >>, << "global" >>, << "French", "German" >> }

\* "Sales,SALES positions"
SalesRole ==
    Str(<<"S","a","l","e","s",",","S","A","L","E","S"," ",
          "p","o","s","i","t","i","o","n","s">>)

\* "Finance\troles, Roles"
FinanceRole ==
    Str(<<"F","i","n","a","n","c","e","\t","r","o","l","e","s",","," ","R","o","l","e","s">>)

RoleValues == { NotStr, Str(<< >>), SalesRole, FinanceRole }

\* ["analysis"]
AnalysisFocus == << <<"a","n","a","l","y","s","i","s">> >>

\* ["Drivers", "LEADERSHIP"]
DriversFocus ==
    << <<"D","r","i","v","e","r","s">>, <<"L","E","A","D","E","R","S","H","I","P">> >>

\* ["Coding", "problem solving"]
CodingFocus ==
    << <<"C","o","d","i","n","g">>,
       <<"p","r","o","b","l","e","m"," ","s","o","l","v","i","n","g">> >>

FocusLists == { << >>, AnalysisFocus, DriversFocus, CodingFocus }

Missing(default) == [present |-> FALSE, val |-> default]

Given(value) == [present |-> TRUE, val |-> value]

MissingRole == [present |-> FALSE, isstr |-> FALSE, val |-> << >>]

GivenRole(text) == [present |-> TRUE, isstr |-> text.isstr, val |-> text.val]

\* {}
EmptyCriteria ==
    [ job_role           |-> MissingRole,
      job_level          |-> Missing(""),
      assessment_focus   |-> Missing(<< >>),
      time_constraints   |-> Missing(0),
      required_languages |-> Missing(<< >>),
      location           |-> Missing("") ]

\* the hard filters: every combination of level, time budget and languages
FilterParts ==
    [ job_level          : {Missing("")} \cup { Given(l) : l \in LevelTags },
      time_constraints   : {Missing(0)} \cup { Given(t) : t \in TimeValues },
      required_languages : {Missing(<< >>)} \cup { Given(l) : l \in LanguageLists } ]

ScoringPart(role, focus, location) ==
    [job_role |-> role, assessment_focus |-> focus, location |-> location]

\* the scoring keys, with and without an unrecognized key beside them
ScoringParts ==
    { ScoringPart(MissingRole, Missing(<< >>), Missing("")),
      ScoringPart(MissingRole, Missing(<< >>), Given("London")),
      ScoringPart(GivenRole(NotStr), Missing(<< >>), Missing("")),
      ScoringPart(GivenRole(Str(<< >>)), Given(<< >>), Missing("")),
      ScoringPart(GivenRole(SalesRole), Missing(<< >>), Missing("")),
      ScoringPart(GivenRole(FinanceRole), Given(<< >>), Given("London")),
      ScoringPart(MissingRole, Given(AnalysisFocus), Missing("")),
      ScoringPart(MissingRole, Given(DriversFocus), Missing("")),
      ScoringPart(GivenRole(SalesRole), Given(CodingFocus), Missing("")),
      ScoringPart(GivenRole(FinanceRole), Given(DriversFocus), Missing("")) }

CriteriaSet ==
    { [ job_role           |-> s.job_role,
        job_level          |-> f.job_level,
        assessment_focus   |-> s.assessment_focus,
        time_constraints   |-> f.time_constraints,
        required_languages |-> f.required_languages,
        location           |-> s.location ] : f \in FilterParts, s \in ScoringParts }

\* ids asked of get_assessment_details: every catalog id and an unknown one
IdValues == ToSet(Col_assessment_id) \cup { "UNKNOWN" }

\* the criteria a caller asks twice, keeping the first output to compare
Probes ==
    { [EmptyCriteria EXCEPT !.job_role = GivenRole(SalesRole)],
      [EmptyCriteria EXCEPT !.assessment_focus = Given(AnalysisFocus),
                            !.job_level = Given("professional")] }

NoEarlier ==
    [taken |-> FALSE, criteria |-> EmptyCriteria, result |-> << >>, between |-> FALSE]

NoDetails == [found |-> FALSE, row |-> << >>]

------------------------------------------------------------------------------
(* Behaviour *)

Init ==
    /\ catalog = LoadShlCatalog
    /\ build \in Builds
    /\ pc = "idle"
    /\ criteria = EmptyCriteria
    /\ outcome = "none"
    /\ result = << >>
    /\ details = NoDetails
    /\ earlier = NoEarlier

\* the caller builds a criteria dict and calls engine.recommend(criteria)
Call(crit) ==
    /\ pc = "idle"
    /\ pc' = "called"
    /\ criteria' = crit
    /\ outcome' = "none"
    /\ result' = << >>
    /\ details' = NoDetails
    /\ UNCHANGED << catalog, build, earlier >>

\* the caller has kept no output yet and this call is one it asks twice
CanKeep == ~earlier.taken /\ criteria \in Probes

\* recommend runs to its return (or to an exception); the caller may keep
\* the first output it sees for a later comparison, and notes whether a call
\* with other criteria came after it
RecommendReturn(keep) ==
    /\ pc = "called"
    /\ LET st == Recommend(catalog, build, criteria)
       IN  /\ catalog' = st.cat
           /\ outcome' = st.status
           /\ result' = st.df
           /\ earlier' =
                  IF keep
                  THEN [taken |-> TRUE, criteria |-> criteria, result |-> st.df,
                        between |-> FALSE]
                  ELSE IF earlier.taken /\ criteria # earlier.criteria
                       THEN [earlier EXCEPT !.between = TRUE]
                       ELSE earlier
    /\ pc' = "returned"
    /\ UNCHANGED << build, criteria, details >>

\* the caller renders the returned frame and drops it
Display ==
    /\ pc = "returned"
    /\ pc' = "idle"
    /\ criteria' = EmptyCriteria
    /\ outcome' = "none"
    /\ result' = << >>
    /\ UNCHANGED << catalog, build, details, earlier >>

GetAssessmentDetails(id) ==
    /\ pc = "idle"
    /\ details' = GetDetails(catalog, id)
    /\ UNCHANGED << catalog, build, pc, criteria, outcome, result, earlier >>

Next ==
    \/ \E crit \in CriteriaSet : Call(crit)
    \/ \E keep \in (IF CanKeep THEN BOOLEAN ELSE {FALSE}) : RecommendReturn(keep)
    \/ Display
    \/ \E id \in IdValues : GetAssessmentDetails(id)

Spec == Init /\ [][Next]_vars

------------------------------------------------------------------------------
(* Properties *)

\* a recommend call has just returned a frame
Returned == pc = "returned" /\ outcome = "ok"

\* the catalog row a returned row was made from
Source(row) == catalog[CHOOSE i \in 1..Len(catalog) : catalog[i].index = row.index]

ResultLabels == { result[i].index : i \in 1..Len(result) }

\* a record passes every hard filter the criteria activates
PassesFilters(row, crit) ==
    /\ crit.job_level.present =>
           row.job_level \in { crit.job_level.val, "all" }
    /\ crit.time_constraints.present =>
           row.duration_minutes <= crit.time_constraints.val
    /\ (crit.required_languages.present /\ crit.required_languages.val # << >>) =>
           row.language_availability = "global"

\* C1: the records recommend returns are exactly the catalog records that
\* pass all active hard filters, each returned once
C1_FiltersExact ==
    Returned =>
        /\ ResultLabels =
               { catalog[i].index : i \in { j \in 1..Len(catalog) :
                                              PassesFilters(catalog[j], criteria) } }
        /\ Cardinality(ResultLabels) = Len(result)

\* all three filters are active on a level no record carries, and the result
\* holds some records and leaves others out
C1_Witness ==
    /\ Returned
    /\ criteria.job_level = Given("manager")
    /\ criteria.time_constraints = Given(20)
    /\ criteria.required_languages.present
    /\ criteria.required_languages.val # << >>
    /\ Len(result) > 0
    /\ Len(result) < Len(catalog)

SameLetter(x, y) ==
    \/ x = y
    \/ \E k \in 1..Len(UpperAlpha) :
           { x, y } = { UpperAlpha[k], LowerAlpha[k] }

\* wanted occurs somewhere in have, letter case ignored
OccursIgnoringCase(wanted, have) ==
    \E off \in 0..(Len(have) - Len(wanted)) :
        \A j \in 1..Len(wanted) : SameLetter(have[off + j], wanted[j])

\* the requested competencies that at least one record competency contains
MatchedRequests(focus, competencies) ==
    { k \in 1..Len(focus) :
        \E c \in 1..Len(competencies) : OccursIgnoringCase(focus[k], competencies[c]) }

\* what role scoring added to a returned row
RolePart(row) ==
    IF criteria.job_role.present
    THEN MatchScore(ExtractKeywords(criteria.job_role),
                    ExtractKeywords(Str(row.ideal_for)))
    ELSE 0

\* what competency scoring added to a returned row
FocusPart(row) ==
    IF criteria.assessment_focus.present
    THEN CompetencyMatches(criteria.assessment_focus.val, row.competencies) * 3
    ELSE 0

\* C3: with assessment_focus present, the competency part of a row's score is
\* 3 times the number of requested competencies contained, case ignored, in
\* at least one of the row's competencies; ['analysis'] alone gives VERIFY-G+ 3
C3_CompetencyContribution ==
    (Returned /\ criteria.assessment_focus.present) =>
        \A i \in 1..Len(result) :
            /\ result[i].relevance_score - RolePart(result[i]) =
                   3 * Cardinality(MatchedRequests(criteria.assessment_focus.val,
                                                   result[i].competencies))
            /\ ( /\ criteria.assessment_focus.val = AnalysisFocus
                 /\ ~criteria.job_role.present
                 /\ result[i].assessment_id = "VERIFY-G+" )
                   => result[i].relevance_score = 3

\* 'Drivers' is contained in three of MOTIVATION's competencies, 'LEADERSHIP'
\* in none: MOTIVATION is returned with score 3
C3_Witness ==
    /\ Returned
    /\ criteria.assessment_focus = Given(DriversFocus)
    /\ ~criteria.job_role.present
    /\ \E i \in 1..Len(result) :
           /\ result[i].assessment_id = "MOTIVATION"
           /\ result[i].relevance_score = 3

Separators == Whitespace \cup { "," }

\* the lowercase tokens of a text: its maximal runs of non-separator characters
TokenSet(text) ==
    IF ~text.isstr THEN {}
    ELSE LET s == text.val
         IN  { Lower(SubSeq(s, a, b)) :
                 <<a, b>> \in { ab \in (1..Len(s)) \X (1..Len(s)) :
                     /\ ab[1] <= ab[2]
                     /\ \A k \in ab[1]..ab[2] : s[k] \notin Separators
                     /\ ab[1] = 1 \/ s[ab[1] - 1] \in Separators
                     /\ ab[2] = Len(s) \/ s[ab[2] + 1] \in Separators } }

\* C4: with job_role present, the role part of a row's score is 2 times the
\* number of distinct lowercase tokens job_role shares with the row's
\* ideal_for; a non-string job_role has no tokens, an absent one adds nothing
C4_RoleContribution ==
    Returned =>
        \A i \in 1..Len(result) :
            result[i].relevance_score - FocusPart(result[i]) =
                IF criteria.job_role.present
                THEN 2 * Cardinality(TokenSet(criteria.job_role)
                                       \cap TokenSet(Str(result[i].ideal_for)))
                ELSE 0

\* "Sales,SALES positions" shares sales and positions with SALESQ's
\* "sales positions": score 4, the repeated token counted once
C4_Witness ==
    /\ Returned
    /\ criteria.job_role = GivenRole(SalesRole)
    /\ ~criteria.assessment_focus.present
    /\ \E i \in 1..Len(result) :
           /\ result[i].assessment_id = "SALESQ"
           /\ result[i].relevance_score = 4

\* no recognized key is present
NoRecognizedKey(crit) == \A key \in Keys : ~crit[key].present

WithLanguages(crit, field) == [crit EXCEPT !.required_languages = field]

\* C6: the output depends on required_languages only through its being
\* present and non-empty: any other non-empty list gives the same output, no
\* returned record is 'limited', and an empty list filters nothing
C6_LanguageValuesIgnored ==
    (Returned /\ criteria.required_languages.present) =>
        IF criteria.required_languages.val # << >>
        THEN /\ \A other \in LanguageLists \ { << >> } :
                    Recommend(catalog, build, WithLanguages(criteria, Given(other))).df
                        = result
             /\ \A i \in 1..Len(result) :
                    Source(result[i]).language_availability # "limited"
        ELSE Recommend(catalog, build, WithLanguages(criteria, Missing(<< >>))).df
                 = result

\* a call whose list names no 'global' at all still returns records
C6_Witness ==
    /\ Returned
    /\ criteria.required_languages = Given(<< "French", "German" >>)
    /\ Len(result) > 0

\* C7: whatever calls were made, the catalog holds the loaded records, in
\* order, with their columns only (no relevance_score) and unique ids
C7_CatalogUnchanged ==
    /\ Len(catalog) = Len(LoadShlCatalog)
    /\ \A i \in 1..Len(catalog) : DOMAIN catalog[i] = Columns \cup { "index" }
    /\ catalog = LoadShlCatalog
    /\ \A i, j \in 1..Len(catalog) :
           catalog[i].assessment_id = catalog[j].assessment_id => i = j

\* a recommend call, a later one with other criteria, then a lookup by id
C7_Witness ==
    /\ pc = "idle"
    /\ earlier.taken
    /\ earlier.between
    /\ details.found

\* C8: a call with the criteria of an earlier call returns the earlier
\* output, whatever calls came between
C8_SameCriteriaSameOutput ==
    (Returned /\ earlier.taken /\ earlier.criteria = criteria) =>
        result = earlier.result

\* the second call on the kept criteria returns after a call on other
\* criteria, with scores in its output
C8_Witness ==
    /\ Returned
    /\ earlier.taken
    /\ earlier.between
    /\ earlier.criteria = criteria
    /\ \E i \in 1..Len(result) : result[i].relevance_score > 0

\* nothing in the criteria can add to a score
NoScoring(crit) ==
    /\ crit.job_role.present => ExtractKeywords(crit.job_role) = << >>
    /\ crit.assessment_focus.present => crit.assessment_focus.val = << >>

\* C9: recommend never raises; sort and projection always run; keys that are
\* absent or empty add nothing; filters that exclude everything give << >>
C9_NeverAnError ==
    pc = "returned" =>
        /\ outcome = "ok"
        /\ \A i \in 1..Len(result) : DOMAIN result[i] = OutputColumns \cup { "index" }
        /\ \A i \in 1..(Len(result) - 1) :
               result[i].relevance_score >= result[i + 1].relevance_score
        /\ NoScoring(criteria) => \A i \in 1..Len(result) : result[i].relevance_score = 0
        /\ (\A i \in 1..Len(catalog) : ~PassesFilters(catalog[i], criteria))
               => result = << >>

\* every record is filtered out, with empty job_role and assessment_focus
C9_Witness ==
    /\ pc = "returned"
    /\ criteria.job_role = GivenRole(Str(<< >>))
    /\ criteria.assessment_focus = Given(<< >>)
    /\ criteria.time_constraints = Given(10)
    /\ result = << >>

\* s is t with some elements left out
RECURSIVE IsSubsequence(_, _)
IsSubsequence(s, t) ==
    IF s = << >> THEN TRUE
    ELSE IF t = << >> THEN FALSE
    ELSE IF Head(s) = Head(t) THEN IsSubsequence(Tail(s), Tail(t))
    ELSE IsSubsequence(s, Tail(t))

\* the criteria that crit tightens: one hard filter dropped, or a larger budget
Relaxations(crit) ==
    (IF crit.job_level.present
     THEN { [crit EXCEPT !.job_level = Missing("")] } ELSE {})
    \cup
    (IF crit.required_languages.present
     THEN { [crit EXCEPT !.required_languages = Missing(<< >>)] } ELSE {})
    \cup
    (IF crit.time_constraints.present
     THEN { [crit EXCEPT !.time_constraints = Missing(0)] }
          \cup { [crit EXCEPT !.time_constraints = Given(t)] :
                     t \in { u \in TimeValues : u > crit.time_constraints.val } }
     ELSE {})

====
